---------------------------- MODULE Spec2Model ----------------------------
(***************************************************************************)
(* pkg-reader (app.js): a web server that parses the dpkg status file and  *)
(* answers /names and /packages?name=... with package names and details.   *)
(*                                                                         *)
(* Text is modelled as TLA+ strings, inspected character by character with *)
(* SubSeq and Len, so that the regular expressions and the split/replace/  *)
(* trim calls of app.js are computed as the JavaScript computes them.      *)
(* A JavaScript value that may be a string or undefined (the return of     *)
(* getNameFrom and getSummaryFrom) is a record: Str(s) or Undefined.       *)
(***************************************************************************)
EXTENDS Integers, Sequences, FiniteSets, TLC

VARIABLES
    fs,       \* the file system: path -> [exists, data]
    alive,    \* the node process is running
    req,      \* the request being answered (the last one received)
    payload,  \* the value the handler computed (nameData.names / details)
    res       \* the response: statusCode, Content-Type, data

vars == <<fs, alive, req, payload, res>>

(***************************************************************************)
(* JavaScript values                                                       *)
(***************************************************************************)
Str(s) == [type |-> "string", val |-> s]

Undefined == [type |-> "undefined"]

Null == [type |-> "null"]

(***************************************************************************)
(* String primitives                                                       *)
(***************************************************************************)
Ch(s, i) == SubSeq(s, i, i)

StartsWith(s, p) == Len(s) >= Len(p) /\ SubSeq(s, 1, Len(p)) = p

\* String.prototype.indexOf(sep, from), 1-based; 0 when there is none
RECURSIVE IndexOf(_, _, _)
IndexOf(s, sep, from) ==
    IF from + Len(sep) - 1 > Len(s) THEN 0
    ELSE IF SubSeq(s, from, from + Len(sep) - 1) = sep THEN from
    ELSE IndexOf(s, sep, from + 1)

\* String.prototype.split(sep) for a non-empty separator
RECURSIVE Split(_, _)
Split(s, sep) ==
    LET i == IndexOf(s, sep, 1)
    IN  IF i = 0 THEN <<s>>
        ELSE <<SubSeq(s, 1, i - 1)>> \o Split(SubSeq(s, i + Len(sep), Len(s)), sep)

\* Array.prototype.join('')
RECURSIVE Join(_)
Join(ss) == IF ss = <<>> THEN "" ELSE Head(ss) \o Join(Tail(ss))

\* the white space String.prototype.trim removes (of the characters modelled)
WhiteSpace == {" ", "\t", "\n", "\r"}

RECURSIVE TrimStart(_)
TrimStart(s) ==
    IF Len(s) > 0 /\ Ch(s, 1) \in WhiteSpace THEN TrimStart(SubSeq(s, 2, Len(s)))
    ELSE s

RECURSIVE TrimEnd(_)
TrimEnd(s) ==
    IF Len(s) > 0 /\ Ch(s, Len(s)) \in WhiteSpace THEN TrimEnd(SubSeq(s, 1, Len(s) - 1))
    ELSE s

Trim(s) == TrimEnd(TrimStart(s))

\* Array.prototype.includes
Includes(seq, x) == \E i \in 1..Len(seq) : seq[i] = x

(***************************************************************************)
(* The regular expressions, app.js lines 18-34                             *)
(***************************************************************************)
\* the character class [ |\t] : space, vertical bar, tab
FieldClass == {" ", "|", "\t"}

\* the characters '.' does not match
LineTerminators == {"\n", "\r"}

\* length of the longest prefix of s made of FieldClass characters
RECURSIVE ClassRun(_, _)
ClassRun(s, i) ==
    IF i <= Len(s) /\ Ch(s, i) \in FieldClass THEN ClassRun(s, i + 1) ELSE i - 1

HasLineTerminator(s) == \E i \in 1..Len(s) : Ch(s, i) \in LineTerminators

\* /^<field>[ |\t]*(.+)[ |\t]*$/ : the match, and its group 1.
\* The first class is greedy and gives back one character when it took the
\* whole rest; (.+) is greedy and takes everything to the end of the line,
\* so the last class always matches the empty string.
FieldParser(field, line) ==
    LET rest == SubSeq(line, Len(field) + 1, Len(line))
        k    == ClassRun(rest, 1)
    IN  IF ~StartsWith(line, field) \/ rest = "" \/ HasLineTerminator(rest)
        THEN [matched |-> FALSE, group1 |-> ""]
        ELSE [matched |-> TRUE,
              group1  |-> IF k < Len(rest) THEN SubSeq(rest, k + 1, Len(rest))
                          ELSE Ch(rest, Len(rest))]

packageNameParser(line) == FieldParser("Package:", line)

descriptionSummaryParser(line) == FieldParser("Description:", line)

dependencyParser(line) == FieldParser("Depends:", line)

\* /^[ |\t]+/
startsWithWhitespaceParser(line) == Len(line) > 0 /\ Ch(line, 1) \in FieldClass

\* replace(/ \(.*?\)/g, '') : every leftmost shortest " (...)" is removed
RECURSIVE versionParserRemove(_)
versionParserRemove(s) ==
    LET i == IndexOf(s, " (", 1)
        j == IF i = 0 THEN 0 ELSE IndexOf(s, ")", i + 2)
        between == SubSeq(s, i + 2, j - 1)
    IN  IF i = 0 \/ j = 0 \/ HasLineTerminator(between) THEN s
        ELSE SubSeq(s, 1, i - 1) \o versionParserRemove(SubSeq(s, j + 1, Len(s)))

\* replace(/,/g, '')
RECURSIVE commasParserRemove(_)
commasParserRemove(s) ==
    IF s = "" THEN ""
    ELSE (IF Ch(s, 1) = "," THEN "" ELSE Ch(s, 1))
         \o commasParserRemove(SubSeq(s, 2, Len(s)))

(***************************************************************************)
(* Splitting, app.js lines 225-256                                         *)
(***************************************************************************)
splitIntoParagraphs(textData) == Split(textData, "\n\n")

splitIntoLines(textData) == Split(textData, "\n")

\* mutant: the joined lines are not trimmed
joinDescriptionLines_noTrim(description) == Join(description)

joinDescriptionLines(description) == Trim(Join(description))

(***************************************************************************)
(* Field extraction, app.js lines 117-218                                  *)
(***************************************************************************)
parseDependencyString(dependencies) ==
    commasParserRemove(versionParserRemove(dependencies))

RECURSIVE getNameFrom(_)
getNameFrom(packageInfo) ==
    IF packageInfo = <<>> THEN Undefined
    ELSE IF packageNameParser(Head(packageInfo)).matched
         THEN Str(packageNameParser(Head(packageInfo)).group1)
         ELSE getNameFrom(Tail(packageInfo))

RECURSIVE getSummaryFrom(_)
getSummaryFrom(packageInfo) ==
    IF packageInfo = <<>> THEN Undefined
    ELSE IF descriptionSummaryParser(Head(packageInfo)).matched
         THEN Str(descriptionSummaryParser(Head(packageInfo)).group1)
         ELSE getSummaryFrom(Tail(packageInfo))

\* the loop of getDescriptionFrom: description is the array built so far
RECURSIVE descriptionLoop(_, _, _)
descriptionLoop(packageInfo, saveDescription, description) ==
    IF packageInfo = <<>> THEN description
    ELSE LET line == Head(packageInfo)
         IN  IF startsWithWhitespaceParser(line) /\ saveDescription
             THEN descriptionLoop(Tail(packageInfo), TRUE, Append(description, line))
             ELSE descriptionLoop(Tail(packageInfo),
                                  descriptionSummaryParser(line).matched,
                                  description)

getDescriptionFrom(packageInfo) ==
    joinDescriptionLines(descriptionLoop(packageInfo, FALSE, <<>>))

RECURSIVE getDependenciesFrom(_)
getDependenciesFrom(packageInfo) ==
    IF packageInfo = <<>> THEN ""
    ELSE IF dependencyParser(Head(packageInfo)).matched
         THEN parseDependencyString(dependencyParser(Head(packageInfo)).group1)
         ELSE getDependenciesFrom(Tail(packageInfo))

\* mutant: the name is searched in the string, not among its tokens
isDependentOn_substring(nameToFind, packageInfo) ==
    IndexOf(getDependenciesFrom(packageInfo), nameToFind, 1) > 0

isDependentOn(nameToFind, packageInfo) ==
    Includes(Split(getDependenciesFrom(packageInfo), " "), nameToFind)

\* [...new Set(list)] : first occurrences, in order
RECURSIVE UniqueFrom(_, _)
UniqueFrom(list, seen) ==
    IF list = <<>> THEN seen
    ELSE UniqueFrom(Tail(list),
                    IF Includes(seen, Head(list)) THEN seen ELSE Append(seen, Head(list)))

\* mutant: the list is used without the Set
uniqueDependencies_keepAll(dependencyList) == dependencyList

uniqueDependencies(dependencyList) == UniqueFrom(dependencyList, <<>>)

findDependenciesFor(dependenciesAsString, allPackageNames) ==
    IF dependenciesAsString = "" THEN <<>>
    ELSE LET unique == uniqueDependencies(Split(dependenciesAsString, " "))
         IN  [i \in 1..Len(unique) |->
                [name |-> unique[i], found |-> Includes(allPackageNames, Str(unique[i]))]]

(***************************************************************************)
(* getPackageNames, app.js lines 42-54                                     *)
(***************************************************************************)
RECURSIVE namesLoop(_, _)
namesLoop(lines, names) ==
    IF lines = <<>> THEN names
    ELSE namesLoop(Tail(lines),
                   IF packageNameParser(Head(lines)).matched
                   THEN Append(names, packageNameParser(Head(lines)).group1)
                   ELSE names)

\* mutant: the names pass through a Set
getPackageNames_unique(fileToProcess) ==
    UniqueFrom(namesLoop(splitIntoLines(fileToProcess), <<>>), <<>>)

getPackageNames(fileToProcess) == namesLoop(splitIntoLines(fileToProcess), <<>>)

(***************************************************************************)
(* getInfoFor, app.js lines 63-100                                         *)
(***************************************************************************)
\* mutant: summary is declared without a value
infoStart_unset ==
    [summary |-> Undefined, description |-> "", dependenciesTemp |-> "",
     dependents |-> <<>>, allPackageNames |-> <<>>]

\* the locals of getInfoFor before the loop
infoStart ==
    [summary |-> Str(""), description |-> "", dependenciesTemp |-> "",
     dependents |-> <<>>, allPackageNames |-> <<>>]

\* mutant: the name is pushed after the continue statements
infoStep_pushLate(acc, package, packageName) ==
    LET lines            == splitIntoLines(package)
        currentName      == getNameFrom(lines)
        isCorrectPackage == currentName = Str(packageName)
    IN  IF ~isCorrectPackage /\ isDependentOn(packageName, lines)
        THEN [acc EXCEPT !.dependents = Append(@, currentName)]
        ELSE IF ~isCorrectPackage
        THEN acc
        ELSE [acc EXCEPT !.allPackageNames = Append(@, currentName),
                         !.summary = getSummaryFrom(lines),
                         !.description = getDescriptionFrom(lines),
                         !.dependenciesTemp = getDependenciesFrom(lines)]

\* one iteration of the for loop over allPackages
infoStep(acc, package, packageName) ==
    LET lines            == splitIntoLines(package)
        currentName      == getNameFrom(lines)
        pushed           == [acc EXCEPT !.allPackageNames = Append(@, currentName)]
        isCorrectPackage == currentName = Str(packageName)
    IN  IF ~isCorrectPackage /\ isDependentOn(packageName, lines)
        THEN [pushed EXCEPT !.dependents = Append(@, currentName)]
        ELSE IF ~isCorrectPackage
        THEN pushed
        ELSE [pushed EXCEPT !.summary = getSummaryFrom(lines),
                            !.description = getDescriptionFrom(lines),
                            !.dependenciesTemp = getDependenciesFrom(lines)]

\* mutant: the loop breaks at the first stanza named as queried
RECURSIVE infoLoop_break(_, _, _)
infoLoop_break(allPackages, packageName, acc) ==
    IF allPackages = <<>> THEN acc
    ELSE IF getNameFrom(splitIntoLines(Head(allPackages))) = Str(packageName)
    THEN infoStep(acc, Head(allPackages), packageName)
    ELSE infoLoop_break(Tail(allPackages), packageName,
                        infoStep(acc, Head(allPackages), packageName))

RECURSIVE infoLoop(_, _, _)
infoLoop(allPackages, packageName, acc) ==
    IF allPackages = <<>> THEN acc
    ELSE infoLoop(Tail(allPackages), packageName,
                  infoStep(acc, Head(allPackages), packageName))

getInfoFor(packageName, fileData) ==
    LET acc == infoLoop(splitIntoParagraphs(fileData), packageName, infoStart)
    IN  [summary     |-> acc.summary,
         description |-> acc.description,
         depends     |-> findDependenciesFor(acc.dependenciesTemp, acc.allPackageNames),
         dependents  |-> acc.dependents]


(***************************************************************************)
(* The files and the requests of the model                                 *)
(***************************************************************************)
source == "./var/lib/dpkg/status"

htmlIndex == "./index.html"

cssDefinitions == "./app.css"

\* the most stanzas of a status file made of library stanzas
MaxStanzas == 3

\* the most lines after the Package: line of a one-stanza status file
MaxLines == 3

\* stanzas (each a sequence of lines) that status files are made of
StanzaLib ==
    { <<"Package: a", "Depends: b">>,
      <<"Package: a", "Description: short", " long text",
        "Depends: a, b (>= 1.0) | c | b">>,
      <<"Package: b", "Depends: ab , c ">>,
      <<"Package: b", "Package: a", "Depends: a">>,
      <<"Package: |", "Depends: a">>,
      <<"Depends: a">> }

\* lines that follow the Package: line of a one-stanza status file
LineLib ==
    { "Description: short", " more text", " continued", "|x", "\ttab",
      "Depends: b", "Description: |s " }

RECURSIVE JoinWith(_, _)
JoinWith(ss, sep) ==
    IF Len(ss) = 0 THEN ""
    ELSE IF Len(ss) = 1 THEN ss[1]
    ELSE ss[1] \o sep \o JoinWith(Tail(ss), sep)

SeqsUpTo(S, n) == UNION { [1..k -> S] : k \in 1..n }

\* status files of up to MaxStanzas library stanzas, one blank line between
StanzaFiles ==
    { JoinWith([i \in 1..Len(f) |-> JoinWith(f[i], "\n")], "\n\n") :
        f \in SeqsUpTo(StanzaLib, MaxStanzas) }

\* status files of one stanza: Package: a, then up to MaxLines library lines
LineFiles ==
    { JoinWith(<<"Package: a">> \o ls, "\n") : ls \in SeqsUpTo(LineLib, MaxLines) }

StatusFiles == StanzaFiles \cup LineFiles

\* the decoded values of the name parameter of a /packages request
QueryNames == {"a", "b", "c"}

Present(data) == [exists |-> TRUE, data |-> data]

Absent == [exists |-> FALSE, data |-> ""]

NoRequest == [method |-> "", path |-> "", name |-> Null]

NoResponse == [statusCode |-> 0, contentType |-> "", data |-> Null]

(***************************************************************************)
(* The server, app.js lines 263-310                                        *)
(***************************************************************************)
Init ==
    /\ \E status \in {Absent} \cup { Present(t) : t \in StatusFiles } :
         fs = [p \in {source, htmlIndex, cssDefinitions} |->
                 IF p = source THEN status
                 ELSE IF p = htmlIndex THEN Present("<!DOCTYPE html>")
                 ELSE Present("body {}")]
    /\ alive = TRUE
    /\ req = NoRequest
    /\ payload = Null
    /\ res = NoResponse

\* JSON.stringify of the details object: a key whose value is undefined is
\* left out, an undefined array element becomes null
stringifyDetails(details) ==
    LET arr == [i \in 1..Len(details.dependents) |->
                  IF details.dependents[i] = Undefined THEN Null
                  ELSE details.dependents[i]]
    IN  IF details.summary = Undefined
        THEN [description |-> details.description, depends |-> details.depends,
              dependents |-> arr]
        ELSE [summary |-> details.summary, description |-> details.description,
              depends |-> details.depends, dependents |-> arr]

responseSuccess(header, data) ==
    [statusCode |-> 200, contentType |-> header, data |-> data]

responseFailure == [statusCode |-> 404, contentType |-> "", data |-> Null]

\* getFile throws when the path cannot be read; nothing catches the
\* exception in the request listener, so node ends the process and the
\* request is never answered
Crash(r) ==
    /\ alive' = FALSE
    /\ req' = r
    /\ payload' = Null
    /\ res' = NoResponse
    /\ UNCHANGED fs

Answer(r, p, response) ==
    /\ req' = r
    /\ payload' = p
    /\ res' = response
    /\ UNCHANGED <<fs, alive>>

\* GET / and GET /app.css
ServeStatic ==
    /\ alive
    /\ \E route \in { <<"/", htmlIndex, "text/html">>,
                      <<"/app.css", cssDefinitions, "text/css">> } :
         LET r == [method |-> "GET", path |-> route[1], name |-> Null]
         IN  IF fs[route[2]].exists
             THEN Answer(r, Null, responseSuccess(route[3], fs[route[2]].data))
             ELSE Crash(r)

\* GET /names
ServeNames ==
    /\ alive
    /\ LET r == [method |-> "GET", path |-> "/names", name |-> Null]
       IN  IF fs[source].exists
           THEN LET nameData == [names |-> getPackageNames(fs[source].data)]
                IN  Answer(r, nameData.names,
                           responseSuccess("application/json", nameData))
           ELSE Crash(r)

\* GET /packages?name=<a non-empty name>
ServePackages ==
    /\ alive
    /\ \E package \in QueryNames :
         LET r == [method |-> "GET", path |-> "/packages", name |-> Str(package)]
         IN  IF fs[source].exists
             THEN LET details == getInfoFor(package, fs[source].data)
                  IN  Answer(r, details,
                             responseSuccess("application/json",
                                             stringifyDetails(details)))
             ELSE Crash(r)

\* GET of any other path, and GET /packages with no name or an empty one
ServeNotFound ==
    /\ alive
    /\ \E r \in { [method |-> "GET", path |-> "/other", name |-> Null],
                  [method |-> "GET", path |-> "/packages", name |-> Null],
                  [method |-> "GET", path |-> "/packages", name |-> Str("")] } :
         Answer(r, Null, responseFailure)

\* a method other than GET: the listener returns without answering
IgnoreOtherMethod ==
    /\ alive
    /\ Answer([method |-> "POST", path |-> "/names", name |-> Null], Null, NoResponse)

Next ==
    \/ ServeStatic
    \/ ServeNames
    \/ ServePackages
    \/ ServeNotFound
    \/ IgnoreOtherMethod

Spec == Init /\ [][Next]_vars

(***************************************************************************)
(* What the claims speak of: the status file as stanzas and field values,  *)
(* stated by position rather than by the loops of app.js                   *)
(***************************************************************************)
StatusText == fs[source].data

\* the stanzas of the status file, each a sequence of lines
Stanzas ==
    LET paragraphs == Split(StatusText, "\n\n")
    IN  [i \in 1..Len(paragraphs) |-> Split(paragraphs[i], "\n")]

\* the j-th smallest element of a set of numbers
Nth(S, j) == CHOOSE i \in S : Cardinality({k \in S : k < i}) = j - 1

\* the elements of S in increasing order
InOrder(S) == [j \in 1..Cardinality(S) |-> Nth(S, j)]

\* the lines of a stanza that match /^<field>[ |\t]*(.+)[ |\t]*$/
FieldLines(lines, field) ==
    {i \in 1..Len(lines) : FieldParser(field, lines[i]).matched}

HasField(lines, field) == FieldLines(lines, field) # {}

\* group 1 of the first line of the stanza that matches the field pattern
FieldValue(lines, field) ==
    FieldParser(field, lines[Nth(FieldLines(lines, field), 1)]).group1

\* the extracted name of a stanza: a string, or undefined with no Package: line
NameOf(lines) ==
    IF HasField(lines, "Package:") THEN Str(FieldValue(lines, "Package:"))
    ELSE Undefined

\* the extracted names of the stanzas
NamesOf(st) == [i \in 1..Len(st) |-> NameOf(st[i])]

\* the tokens of a stanza's Depends line: versions and commas removed, split
\* on single spaces, as String.prototype.split leaves them (none when
\* nothing is left of the value)
RawTokens(lines) ==
    IF HasField(lines, "Depends:")
          /\ parseDependencyString(FieldValue(lines, "Depends:")) # ""
    THEN Split(parseDependencyString(FieldValue(lines, "Depends:")), " ")
    ELSE <<>>

\* the same with the empty tokens discarded
Tokens(lines) == SelectSeq(RawTokens(lines), LAMBDA t : t # "")

\* a /packages request was answered with the details of req.name
InfoAnswered ==
    req.method = "GET" /\ req.path = "/packages" /\ res.statusCode = 200

\* a /names request was answered
NamesAnswered ==
    req.method = "GET" /\ req.path = "/names" /\ res.statusCode = 200

Queried == req.name.val

\* the stanzas named q, given the names of the stanzas
TargetsIn(names, q) == {i \in 1..Len(names) : names[i] = Str(q)}

\* the stanzas not named q whose Depends tokens contain q
DependentsIn(st, names, q) ==
    {i \in 1..Len(st) : names[i] # Str(q) /\ Includes(Tokens(st[i]), q)}

\* the largest element of a non-empty set of numbers
Last(S) == CHOOSE i \in S : \A k \in S : k <= i

SetOf(seq) == {seq[k] : k \in 1..Len(seq)}

\* names of depends, in order
DependsNames == [k \in 1..Len(payload.depends) |-> payload.depends[k].name]

\* C1: dependents is, in file order and with one entry per stanza, the names
\* of the stanzas that are not named as queried and whose Depends tokens
\* contain the queried name as a whole token; the queried name itself is
\* never among them.
C1_Dependents ==
    InfoAnswered =>
        LET st    == Stanzas
            names == NamesOf(st)
            order == InOrder(DependentsIn(st, names, Queried))
        IN  /\ payload.dependents = [j \in 1..Len(order) |-> names[order[j]]]
            /\ ~Includes(payload.dependents, Str(Queried))

\* C1 witness: a stanza b (Depends: a) makes b a dependent of a, while a
\* stanza named a that lists a, and one that lists "ab" only, are not listed
C1_Witness ==
    /\ InfoAnswered
    /\ Queried = "a"
    /\ payload.dependents = <<Str("b")>>
    /\ LET st == Stanzas
       IN  /\ Len(st) = 3
           /\ \E i \in 1..Len(st) :
                 Includes(Tokens(st[i]), "a") /\ NameOf(st[i]) = Str("a")
           /\ \E i \in 1..Len(st) :
                 Includes(Tokens(st[i]), "ab") /\ ~Includes(Tokens(st[i]), "a")

\* C2: every entry of depends has found = TRUE exactly when its name is the
\* Package value of some stanza of the file, the divider "|" included.
C2_Found ==
    InfoAnswered =>
        LET names == NamesOf(Stanzas)
        IN  \A k \in 1..Len(payload.depends) :
                payload.depends[k].found <=>
                    Includes(names, Str(payload.depends[k].name))

\* C2 witness: a depends list with a found name, a name that is not found and
\* a divider that is found because a stanza is named "|"
C2_Witness ==
    /\ InfoAnswered
    /\ \E k \in 1..Len(payload.depends) :
          payload.depends[k] = [name |-> "b", found |-> TRUE]
    /\ \E k \in 1..Len(payload.depends) :
          payload.depends[k] = [name |-> "c", found |-> FALSE]
    /\ \E k \in 1..Len(payload.depends) :
          payload.depends[k] = [name |-> "|", found |-> TRUE]

\* C3: the token sequence behind depends never contains an empty string,
\* whatever spaces the Depends value holds.
C3_NoEmptyToken ==
    InfoAnswered =>
        \A k \in 1..Len(payload.depends) : payload.depends[k].name # ""

\* the lines of a stanza that the description is made of: those that start
\* with a character of the class and follow a Description: line with only
\* such lines in between
Captured(lines, class) ==
    {i \in 1..Len(lines) :
        /\ Len(lines[i]) > 0 /\ Ch(lines[i], 1) \in class
        /\ \E d \in 1..(i - 1) :
              /\ FieldParser("Description:", lines[d]).matched
              /\ \A k \in (d + 1)..i :
                    Len(lines[k]) > 0 /\ Ch(lines[k], 1) \in class}

\* the captured lines, concatenated as they are and trimmed
DescriptionOf(lines, class) ==
    LET order == InOrder(Captured(lines, class))
    IN  Trim(Join([j \in 1..Len(order) |-> lines[order[j]]]))

ExampleStanza == "Package: a\nDescription: short\n more text\n continued"

PackageLines ==
    LET lines == Split(StatusText, "\n")
        order == InOrder(FieldLines(lines, "Package:"))
    IN  [j \in 1..Len(order) |-> lines[order[j]]]

\* C5: with K lines matching the Package: pattern, getPackageNames returns K
\* entries, the i-th being the value of the i-th such line: not sorted and
\* not deduplicated.
C5_Names ==
    NamesAnswered =>
        LET matching == PackageLines
        IN  /\ Len(payload) = Len(matching)
            /\ \A j \in 1..Len(payload) :
                  payload[j] = FieldParser("Package:", matching[j]).group1

\* C5 witness: a name list with a repeated name, and out of alphabetical order
C5_Witness ==
    /\ NamesAnswered
    /\ \E i, j \in 1..Len(payload) : i < j /\ payload[i] = payload[j]
    /\ \E i \in 1..(Len(payload) - 1) : payload[i] = "b" /\ payload[i + 1] = "a"

\* C6: for a queried name that no stanza has, the result is summary "",
\* description "", depends [] and the dependents are the names of the stanzas
\* whose Depends tokens list that name.
C6_UnknownName ==
    InfoAnswered =>
        LET st    == Stanzas
            names == NamesOf(st)
            deps  == DependentsIn(st, names, Queried)
        IN  TargetsIn(names, Queried) = {} =>
              /\ payload.summary = Str("")
              /\ payload.description = ""
              /\ payload.depends = <<>>
              /\ Len(payload.dependents) = Cardinality(deps)
              /\ \A j \in 1..Len(payload.dependents) :
                    payload.dependents[j] = names[Nth(deps, j)]
              /\ res.data.summary = Str("")

\* C6 witness: an unknown name that other stanzas depend on
C6_Witness ==
    /\ InfoAnswered
    /\ Queried = "c"
    /\ TargetsIn(NamesOf(Stanzas), Queried) = {}
    /\ Includes(payload.dependents, Str("a"))
    /\ Includes(payload.dependents, Str("b"))

\* C7: a missing field gives the empty string: no Description: line gives
\* summary "" and description "", no Depends: line gives empty depends, and
\* a stanza with no Package: line puts no undefined among the dependents.
C7_MissingFieldIsEmpty ==
    InfoAnswered =>
        LET st      == Stanzas
            targets == TargetsIn(NamesOf(st), Queried)
        IN  /\ (targets # {} /\ ~HasField(st[Last(targets)], "Description:")) =>
                  payload.summary = Str("") /\ payload.description = ""
            /\ (targets # {} /\ ~HasField(st[Last(targets)], "Depends:")) =>
                  payload.depends = <<>>
            /\ ~Includes(payload.dependents, Undefined)

\* C8: with several stanzas named as queried, summary, description and
\* depends are those of the last one alone, and the scan covers the whole
\* file: stanzas after it are among the dependents and resolve depends.
C8_LastMatchWins ==
    InfoAnswered =>
        LET st      == Stanzas
            names   == NamesOf(st)
            targets == TargetsIn(names, Queried)
            target  == st[Last(targets)]
        IN  targets # {} =>
              /\ payload.summary =
                    (IF HasField(target, "Description:")
                     THEN Str(FieldValue(target, "Description:")) ELSE Undefined)
              /\ payload.description = DescriptionOf(target, FieldClass)
              /\ SetOf(DependsNames) = SetOf(RawTokens(target))
              /\ \A i \in DependentsIn(st, names, Queried) :
                    Includes(payload.dependents, names[i])
              /\ \A i \in 1..Len(st) : \A k \in 1..Len(payload.depends) :
                    names[i] = Str(payload.depends[k].name)
                        => payload.depends[k].found

\* C8 witness: two stanzas named a, the earlier with a Description: line,
\* the last without one, and a dependent after the last
C8_Witness ==
    /\ InfoAnswered
    /\ payload.summary = Undefined
    /\ payload.description = ""
    /\ LET st      == Stanzas
           names   == NamesOf(st)
           targets == TargetsIn(names, Queried)
       IN  /\ Cardinality(targets) = 2
           /\ HasField(st[Nth(targets, 1)], "Description:")
           /\ ~HasField(st[Last(targets)], "Description:")
           /\ \E i \in DependentsIn(st, names, Queried) : \A t \in targets : t < i

\* C9: a failure to read the status file ends only the request: the server
\* process stays alive.
C9_ServerSurvivesReadFailure ==
    (~fs[source].exists /\ req.method = "GET"
        /\ req.path \in {"/names", "/packages"}) => alive

\* first position of a token in a token sequence
FirstAt(tokens, t) ==
    CHOOSE i \in 1..Len(tokens) : tokens[i] = t /\ \A k \in 1..(i - 1) : tokens[k] # t

\* C10: the names of depends are the tokens of the target's Depends line with
\* repeats removed: no name twice, every token present, and in the order of
\* the first occurrences.
C10_DependsOrder ==
    InfoAnswered =>
        LET st      == Stanzas
            targets == TargetsIn(NamesOf(st), Queried)
            tokens  == RawTokens(st[Last(targets)])
            dnames  == DependsNames
        IN  targets # {} =>
              /\ \A i, j \in 1..Len(dnames) : i # j => dnames[i] # dnames[j]
              /\ SetOf(dnames) = SetOf(tokens)
              /\ \A i, j \in 1..Len(dnames) :
                    i < j => FirstAt(tokens, dnames[i]) < FirstAt(tokens, dnames[j])

\* C10 witness: a Depends line that repeats a name and the divider
C10_Witness ==
    /\ InfoAnswered
    /\ DependsNames = <<"a", "b", "|", "c">>
    /\ LET st == Stanzas
       IN  Len(RawTokens(st[Last(TargetsIn(NamesOf(st), Queried))])) = 6

\* horizontal white space: space and tab
Horizontal == {" ", "\t"}

RECURSIVE HTrimStart(_)
HTrimStart(s) ==
    IF Len(s) > 0 /\ Ch(s, 1) \in Horizontal THEN HTrimStart(SubSeq(s, 2, Len(s)))
    ELSE s

RECURSIVE HTrimEnd(_)
HTrimEnd(s) ==
    IF Len(s) > 0 /\ Ch(s, Len(s)) \in Horizontal THEN HTrimEnd(SubSeq(s, 1, Len(s) - 1))
    ELSE s

\* the text after the colon of a field line, with the spaces and tabs around
\* it removed and nothing else
TrimmedValue(line, field) ==
    HTrimEnd(HTrimStart(SubSeq(line, Len(field) + 1, Len(line))))

\* the first line of a stanza that matches the field pattern
FirstFieldLine(lines, field) == lines[Nth(FieldLines(lines, field), 1)]

\* C11: the value of a Package:, Description: or Depends: line is that of the
\* first matching line of the stanza, and is the text after the colon with
\* the spaces and tabs around it removed and nothing else: it never starts or
\* ends with a space or tab and no other leading character is dropped.
C11_TrimmedFieldValue ==
    /\ NamesAnswered =>
          LET matching == PackageLines
          IN  \A j \in 1..Len(payload) :
                  payload[j] = TrimmedValue(matching[j], "Package:")
    /\ InfoAnswered =>
          LET st      == Stanzas
              targets == TargetsIn(NamesOf(st), Queried)
              target  == st[Last(targets)]
          IN  targets # {} =>
                /\ HasField(target, "Description:") =>
                      payload.summary =
                          Str(TrimmedValue(FirstFieldLine(target, "Description:"),
                                           "Description:"))
                /\ payload.summary.type = "string" =>
                      /\ Len(payload.summary.val) > 0 =>
                            /\ Ch(payload.summary.val, 1) \notin Horizontal
                            /\ Ch(payload.summary.val, Len(payload.summary.val))
                                  \notin Horizontal
                /\ HasField(target, "Depends:") =>
                      DependsNames =
                          UniqueFrom(
                              Split(parseDependencyString(
                                        TrimmedValue(FirstFieldLine(target, "Depends:"),
                                                     "Depends:")), " "),
                              <<>>)

=============================================================================
